---- MODULE Spec2Model ----
(***************************************************************************)
(* PinDetailPage (src/src/app/pin-detail/pin-detail.page.ts, lines 60-137) *)
(* together with Service.verifyBiometric (src/src/app/services/service.ts).*)
(*                                                                         *)
(* One controller instance.  JavaScript runs one handler at a time, so     *)
(* every action below is one run-to-completion step: a template event, the *)
(* continuation after an await, or a timer callback.                       *)
(*                                                                         *)
(* Time is in milliseconds on a grid of tickMs.  The clock is Date.now(),  *)
(* taken as non-decreasing.  The code reads the clock only as a difference *)
(* against the start of a live timer, so the clock is advanced only while  *)
(* a timer is live.  A timer callback runs at its due time or at most      *)
(* MaxLate later (AdvanceTime does not pass a due timer by more).          *)
(***************************************************************************)
EXTENDS Integers, Sequences, FiniteSets

\* ------------------------------------------------------------------ bounds
\* number of showPin invocations one page instance may start
MaxCalls == 2

\* ------------------------------------------------------- program constants
\* toggleReveal: this.showPin(3)
seconds == 3
\* showPin: const tickMs = 50
tickMs == 50
\* showPin: const totalMs = seconds * 1000
totalMs == seconds * 1000
\* private timeoutId ... | null = null  (timer ids are positive, null is falsy)
null == 0
\* a timer callback runs no more than one tick after it is due
MaxLate == tickMs

VARIABLES
    entry,          \* "undefined" or "item": this.entry
    initPc,         \* "loading" while ngOnInit awaits service.load(), then "ready"
    destroyed,      \* ngOnDestroy has run (the view is gone)
    isRevealed,     \* this.isRevealed
    progress,       \* this.progress * totalMs (progress = remaining / totalMs)
    timeoutId,      \* this.timeoutId
    intervalId,     \* this.intervalId
    timers,         \* the platform's live timers: [id, kind, start, due]
    nextTimerId,    \* the id the next setTimeout / setInterval returns
    calls,          \* showPin invocations in start order, each its position
    alerts,         \* number of alert() dialogs shown so far
    now,            \* Date.now()
    revealedSince   \* history: the time isRevealed last went from false to true

vars == <<entry, initPc, destroyed, isRevealed, progress, timeoutId, intervalId,
          timers, nextTimerId, calls, alerts, now, revealedSince>>

\* ApiService (src/src/app/api-service.ts), modelled further down.  Strings
\* are sequences of one-character strings, so that the regular expression,
\* parseInt and the template string of buildBaseUrl work on characters.
VARIABLES
    argIp,          \* validate: the ip argument
    argPort,        \* validate: the port argument
    verdict,        \* validate: "called", then "ok" or the error thrown
    ip,             \* ApiService.ip
    port,           \* ApiService.port
    baseUrl,        \* ApiService.baseUrl
    store,          \* Preferences: key -> <<>> (absent) or <<value>>
    conns,          \* setConnection invocations in start order
    writes,         \* Preferences.set calls issued so far
    restarts,       \* number of process restarts so far
    ops,            \* list/latest/export/import/health invocations
    requests,       \* HTTP requests issued so far
    loading,        \* SocketPage.loading
    runs,           \* saveIp executions in start order
    navs,           \* navigateRoot('/login') calls so far
    notices,        \* alert() dialogs SocketPage has shown so far
    bioCalls,       \* verifyBiometric / loginBiometric invocations
    bioAlerts,      \* alert() dialogs verifyBiometric has shown so far
    itemList,       \* Service.itemList
    persisted,      \* Preferences key 'itemList': <<>> (absent) or <<list>>
    backups,        \* the envelope the server stored last, if any
    lastOp,         \* the last store operation and how it ended
    isEditName,     \* ModalComponent.isEditName
    isEditPin,      \* ModalComponent.isEditPin
    toggles,        \* toggleEditName / toggleEditPin invocations in start order
    route,          \* the page NavController.navigateRoot went to last
    loginPc,        \* LoginPage.ngOnInit: "init" while it awaits, then "ready"
    authed,         \* history: an authentication succeeded since /login was entered
    via,            \* history: what led to /login last
    storedPin,      \* Preferences key 'pin': <<>> (absent) or <<value>>
    wasInBackground,\* AppComponent.wasInBackground
    appActive,      \* history: isActive of the last appStateChange event
    lockNavs,       \* navigations to /login made by AppComponent
    svcOps          \* Service operations awaiting Preferences, in start order

valVars == <<argIp, argPort, verdict>>
connVars == <<ip, port, baseUrl, store, conns, writes, restarts>>
httpVars == <<ops, requests>>
apiVars == <<valVars, connVars, httpVars>>

\* the parts of ApiService at rest, while another part is explored
ValQuiet == argIp = <<>> /\ argPort = <<>> /\ verdict = "ok"
ConnQuiet ==
    /\ ip = <<>> /\ port = <<>> /\ baseUrl = <<>>
    /\ store = [server_ip |-> <<>>, server_port |-> <<>>]
    /\ conns = <<>> /\ writes = <<>> /\ restarts = 0
HttpQuiet == ops = <<>> /\ requests = <<>>
ApiQuiet == ValQuiet /\ ConnQuiet /\ HttpQuiet

\* SocketPage (src/src/app/socket/socket.ts), modelled further down
raceVars == <<loading, runs, navs, notices>>
\* Service.verifyBiometric / loginBiometric on their own
bioVars == <<bioCalls, bioAlerts>>
\* Service (the credential list) with the HomePage handlers that use it
listVars == <<itemList, persisted, backups, lastOp>>
\* ModalComponent (src/src/app/modal/modal.component.ts)
modalVars == <<isEditName, isEditPin, toggles>>
\* AppComponent, LoginPage, RegisterPage and the navigation of SocketPage
navVars == <<route, loginPc, authed, via, storedPin, wasInBackground,
             appActive, lockNavs>>
\* Service with its awaits on Preferences
svcVars == <<svcOps>>
lateVars == <<modalVars, navVars, svcVars>>
restVars == <<raceVars, bioVars, listVars, lateVars>>

RaceQuiet == loading = FALSE /\ runs = <<>> /\ navs = 0 /\ notices = 0
BioQuiet == bioCalls = <<>> /\ bioAlerts = 0
NoOp == [op |-> "none", thrown |-> <<>>, notice |-> "", served |-> "", found |-> "", calls |-> 0]
ListQuiet ==
    /\ itemList = <<>> /\ persisted = <<>> /\ backups = <<>> /\ lastOp = NoOp
ModalQuiet == isEditName = FALSE /\ isEditPin = FALSE /\ toggles = <<>>
NavQuiet ==
    /\ route = "/login" /\ loginPc = "init" /\ authed = FALSE /\ via = "start"
    /\ storedPin = <<>> /\ wasInBackground = FALSE /\ appActive = TRUE
    /\ lockNavs = 0
SvcQuiet == svcOps = <<>>
LateQuiet == ModalQuiet /\ NavQuiet /\ SvcQuiet
RestQuiet == RaceQuiet /\ BioQuiet /\ ListQuiet /\ LateQuiet

Max(a, b) == IF a >= b THEN a ELSE b

\* positions of a showPin invocation
Awaiting == {"isAvailable", "verifyIdentity"}
Pending == {i \in 1..Len(calls) : calls[i] \in Awaiting}

\* clearTimers, mutated: the interval is left running
ClearedKeepInterval(ts) == {t \in ts : t.id # timeoutId \/ timeoutId = null}

\* clearTimers (lines 126-131): the platform's timers after
\* clearTimeout(timeoutId) and clearInterval(intervalId), each skipped when
\* the field is falsy.  Both fields are null afterwards (see the actions).
Cleared(ts) ==
    {t \in ts : ~(timeoutId # null /\ t.id = timeoutId)
             /\ ~(intervalId # null /\ t.id = intervalId)}

\* showPin, mutated: the result of verifyBiometric is ignored
ProceedsAlways(verified) == TRUE

\* showPin line 98: if(!verified){alert(...); return}
Proceeds(verified) == verified

\* interval callback line 110: Math.max(0, totalMs - elapsed)
Remaining(elapsed) == Max(0, totalMs - elapsed)

PinInit ==
    /\ entry = "undefined"
    /\ initPc = "loading"
    /\ destroyed = FALSE
    /\ isRevealed = FALSE
    /\ progress = 0
    /\ timeoutId = null
    /\ intervalId = null
    /\ timers = {}
    /\ nextTimerId = 1
    /\ calls = <<>>
    /\ alerts = 0
    /\ now = 0
    /\ revealedSince = 0

Init == PinInit /\ ApiQuiet /\ RestQuiet

\* ngOnInit (lines 75-81) after service.load() has resolved: entry is the item
\* the route names, or undefined when itemList has none.
NgOnInit ==
    /\ initPc = "loading"
    /\ initPc' = "ready"
    /\ \E found \in {"undefined", "item"} : entry' = found
    /\ UNCHANGED <<destroyed, isRevealed, progress, timeoutId, intervalId, timers,
                   nextTimerId, calls, alerts, now, revealedSince>>

\* hidePin, mutated: progress is not reset
HidePinKeepProgress(ts) ==
    /\ isRevealed' = FALSE
    /\ progress' = progress
    /\ timers' = Cleared(ts)
    /\ timeoutId' = null
    /\ intervalId' = null

\* hidePin (lines 119-123), ts being the platform's timers when it is called
HidePin(ts) ==
    /\ isRevealed' = FALSE
    /\ progress' = 0
    /\ timers' = Cleared(ts)
    /\ timeoutId' = null
    /\ intervalId' = null

\* toggleReveal, mutated: showPin is started although there is no entry
ToggleNoEntryStarts ==
    /\ ~destroyed
    /\ entry = "undefined"
    /\ Len(calls) < MaxCalls
    /\ calls' = Append(calls, "isAvailable")
    /\ UNCHANGED <<entry, initPc, destroyed, isRevealed, progress, timeoutId,
                   intervalId, timers, nextTimerId, alerts, now, revealedSince>>

\* toggleReveal (lines 84-87) with no entry: returns at once
ToggleNoEntry ==
    /\ ~destroyed
    /\ entry = "undefined"
    /\ UNCHANGED vars

\* toggleReveal (lines 84-87) while revealed: hidePin()
ToggleHide ==
    /\ ~destroyed
    /\ entry # "undefined"
    /\ isRevealed
    /\ HidePin(timers)
    /\ UNCHANGED <<entry, initPc, destroyed, nextTimerId, calls, alerts, now,
                   revealedSince>>

\* toggleReveal (lines 84-87) while masked: showPin(3) runs up to its await,
\* verifyBiometric up to its first await (NativeBiometric.isAvailable).
ToggleShow ==
    /\ ~destroyed
    /\ entry # "undefined"
    /\ ~isRevealed
    /\ Len(calls) < MaxCalls
    /\ calls' = Append(calls, "isAvailable")
    /\ UNCHANGED <<entry, initPc, destroyed, isRevealed, progress, timeoutId,
                   intervalId, timers, nextTimerId, alerts, now, revealedSince>>

\* showPin lines 98-115 for call i, once verifyBiometric has resolved to
\* `verified`; n is the number of alerts verifyBiometric itself has shown.
\* The call's position records what verifyBiometric returned.
ShowPinResume(i, verified, n) ==
    /\ calls' = [calls EXCEPT ![i] = IF verified THEN "verified" ELSE "refused"]
    /\ IF ~Proceeds(verified)
       THEN /\ alerts' = alerts + n + 1
            /\ UNCHANGED <<isRevealed, progress, timeoutId, intervalId, timers,
                           nextTimerId, revealedSince>>
       ELSE /\ alerts' = alerts + n
            /\ isRevealed' = TRUE
            /\ progress' = totalMs
            /\ intervalId' = nextTimerId
            /\ timeoutId' = nextTimerId + 1
            /\ timers' = Cleared(timers) \cup
                  { [id |-> nextTimerId, kind |-> "interval", start |-> now,
                     due |-> now + tickMs],
                    [id |-> nextTimerId + 1, kind |-> "timeout", start |-> now,
                     due |-> now + totalMs] }
            /\ nextTimerId' = nextTimerId + 2
            /\ revealedSince' = IF isRevealed THEN revealedSince ELSE now

\* verifyBiometric lines 138-139: NativeBiometric.isAvailable settles.
\*   "available":   goes on to await verifyIdentity
\*   "unavailable": returns false (no alert of its own)
\*   "throws":      catch: alert, returns false
IsAvailableSettles(i) ==
    /\ i \in Pending
    /\ calls[i] = "isAvailable"
    /\ \E outcome \in {"available", "unavailable", "throws"} :
         CASE outcome = "available" ->
                /\ calls' = [calls EXCEPT ![i] = "verifyIdentity"]
                /\ UNCHANGED <<isRevealed, progress, timeoutId, intervalId, timers,
                               nextTimerId, alerts, revealedSince>>
           [] outcome = "unavailable" -> ShowPinResume(i, FALSE, 0)
           [] outcome = "throws" -> ShowPinResume(i, FALSE, 1)
    /\ UNCHANGED <<entry, initPc, destroyed, now>>

\* verifyBiometric lines 141-151: NativeBiometric.verifyIdentity settles;
\* resolved: returns true; rejected (cancel, error): catch: alert, false.
VerifyIdentitySettles(i) ==
    /\ i \in Pending
    /\ calls[i] = "verifyIdentity"
    /\ \E ok \in BOOLEAN :
         IF ok THEN ShowPinResume(i, TRUE, 0) ELSE ShowPinResume(i, FALSE, 1)
    /\ UNCHANGED <<entry, initPc, destroyed, now>>

\* the setTimeout callback of showPin (line 115): () => this.hidePin().
\* A timeout is spent once it has fired.
TimeoutFires(t) ==
    /\ t \in timers
    /\ t.kind = "timeout"
    /\ now >= t.due
    /\ HidePin(timers \ {t})
    /\ UNCHANGED <<entry, initPc, destroyed, nextTimerId, calls, alerts, now,
                   revealedSince>>

\* the setInterval callback of showPin (lines 108-114).  The platform re-arms
\* the interval one tick after the due time or one tick after the run.
IntervalFires(t) ==
    /\ t \in timers
    /\ t.kind = "interval"
    /\ now >= t.due
    /\ \E next \in {t.due + tickMs, now + tickMs} :
         LET elapsed == now - t.start
             remainig == Remaining(elapsed)
             rearmed == (timers \ {t}) \cup {[t EXCEPT !.due = next]}
         IN IF remainig <= 0
            THEN HidePin(rearmed)
            ELSE /\ progress' = remainig
                 /\ timers' = rearmed
                 /\ UNCHANGED <<isRevealed, timeoutId, intervalId>>
    /\ UNCHANGED <<entry, initPc, destroyed, nextTimerId, calls, alerts, now,
                   revealedSince>>

\* ngOnDestroy (lines 134-136): clearTimers()
NgOnDestroy ==
    /\ ~destroyed
    /\ destroyed' = TRUE
    /\ timers' = Cleared(timers)
    /\ timeoutId' = null
    /\ intervalId' = null
    /\ UNCHANGED <<entry, initPc, isRevealed, progress, nextTimerId, calls,
                   alerts, now, revealedSince>>

\* the clock moves on by one tick; no live timer is left more than MaxLate
\* behind its due time
AdvanceTime ==
    /\ timers # {}
    /\ \A t \in timers : now + tickMs <= t.due + MaxLate
    /\ now' = now + tickMs
    /\ UNCHANGED <<entry, initPc, destroyed, isRevealed, progress, timeoutId,
                   intervalId, timers, nextTimerId, calls, alerts, revealedSince>>

Next ==
    \/ NgOnInit /\ UNCHANGED <<apiVars, restVars>>
    \/ ToggleNoEntry /\ UNCHANGED <<apiVars, restVars>>
    \/ ToggleHide /\ UNCHANGED <<apiVars, restVars>>
    \/ ToggleShow /\ UNCHANGED <<apiVars, restVars>>
    \/ \E i \in 1..MaxCalls : IsAvailableSettles(i) /\ UNCHANGED <<apiVars, restVars>>
    \/ \E i \in 1..MaxCalls : VerifyIdentitySettles(i) /\ UNCHANGED <<apiVars, restVars>>
    \/ \E t \in timers : TimeoutFires(t) /\ UNCHANGED <<apiVars, restVars>>
    \/ \E t \in timers : IntervalFires(t) /\ UNCHANGED <<apiVars, restVars>>
    \/ NgOnDestroy /\ UNCHANGED <<apiVars, restVars>>
    \/ AdvanceTime /\ UNCHANGED <<apiVars, restVars>>

Spec == Init /\ [][Next]_vars

\* ------------------------------------------------------------------ claims

TimeoutsLive == {t.id : t \in {u \in timers : u.kind = "timeout"}}
IntervalsLive == {t.id : t \in {u \in timers : u.kind = "interval"}}
Armed == timeoutId # null \/ intervalId # null

\* C1: isRevealed goes from false to true only in the step in which a pending
\* showPin call resumes from a verifyBiometric that returned true (its
\* verifyIdentity resolved).
C1_RevealOnlyAfterVerified ==
    [][(~isRevealed /\ isRevealed') =>
          \E i \in Pending : calls[i] = "verifyIdentity" /\ calls'[i] = "verified"]_vars

\* C1 witness: the PIN is revealed and a call's verification has succeeded.
C1_Witness ==
    isRevealed /\ \E i \in 1..Len(calls) : calls[i] = "verified"

\* C2 (as claimed): while the view is alive, a reveal that began when showPin
\* armed its timers at revealedSince is masked again no later than
\* revealedSince + totalMs + one tick.
C2_MaskedWithinWindow ==
    (isRevealed /\ ~destroyed) => now <= revealedSince + totalMs + tickMs

\* C2, for the pair currently armed only (holds; also with either mechanism
\* taken away): while revealed, the clock is at most totalMs plus one tick past
\* the start of every live timer.
C2_CurrentPairWindow ==
    \A t \in timers : isRevealed => now <= t.start + totalMs + tickMs

\* C3: the live timeout timers are exactly the one timeoutId references, the
\* live interval timers exactly the one intervalId references, so at most one
\* of each is live.
C3_OneTimerPair ==
    /\ TimeoutsLive = (IF timeoutId = null THEN {} ELSE {timeoutId})
    /\ IntervalsLive = (IF intervalId = null THEN {} ELSE {intervalId})
    /\ Cardinality(timers) <= 2

\* C3 witness: showPin has armed a new pair while the PIN was already revealed
\* (the pair now live was started after the reveal began).
C3_Witness ==
    /\ isRevealed
    /\ \E t \in timers : t.start > revealedSince
    /\ timeoutId # null /\ intervalId # null

\* C4 (as claimed): once ngOnDestroy has run, no timer of the controller is
\* armed.
C4_NoTimerAfterDestroy ==
    destroyed => (timers = {} /\ timeoutId = null /\ intervalId = null)

\* C5 (as claimed): at most one verifyBiometric call of the controller is
\* pending.
C5_AtMostOnePending ==
    Cardinality(Pending) <= 1

\* C6 (as claimed): right after a showPin whose verifyBiometric returned false
\* has returned, the controller is masked and no timer is armed.
C6_DeniedLeavesMasked ==
    [][(\E i \in Pending : calls'[i] = "refused") =>
          (~isRevealed' /\ timers' = {} /\ timeoutId' = null /\ intervalId' = null)]_vars

\* C7: from MASKED with an entry and this call the only pending one, a
\* verifyBiometric that returns false leaves isRevealed false, progress 0, no
\* timer armed, and an alert has been shown.
C7_DeniedFromMasked ==
    [][(/\ ~isRevealed
        /\ entry # "undefined"
        /\ Cardinality(Pending) = 1
        /\ \E i \in Pending : calls'[i] = "refused")
       => (/\ ~isRevealed'
           /\ progress' = 0
           /\ timeoutId' = null /\ intervalId' = null /\ timers' = {}
           /\ alerts' > alerts)]_vars

\* C7 witness: the one showPin call made was refused, an alert was shown and
\* the PIN is masked.
C7_Witness ==
    /\ Len(calls) = 1 /\ calls[1] = "refused"
    /\ alerts >= 1
    /\ ~isRevealed /\ ~Armed

\* C8: progress (held as progress * totalMs) is within [0, 1], and is 0
\* whenever the PIN is masked.
C8_ProgressRange ==
    /\ 0 <= progress /\ progress <= totalMs
    /\ ~isRevealed => progress = 0

\* C8 witness: the PIN was revealed, the countdown has run out and the
\* controller is masked again with progress 0.
C8_Witness ==
    /\ ~isRevealed /\ progress = 0
    /\ \E i \in 1..Len(calls) : calls[i] = "verified"
    /\ now >= revealedSince + totalMs

\* C9 (as claimed): no period during which isRevealed stays true lasts longer
\* than totalMs plus one tick.
C9_RevealAtMostThreeSeconds ==
    isRevealed => now - revealedSince <= totalMs + tickMs

\* C10 (as claimed): after ngOnDestroy the controller is masked with
\* progress 0.
C10_MaskedAfterDestroy ==
    destroyed => (~isRevealed /\ progress = 0)

\* C10 (amended): ngOnDestroy disarms both timers and leaves isRevealed and
\* progress as they were.
C10_DestroyDisarmsOnly ==
    [][(~destroyed /\ destroyed') =>
          (/\ timers' = {} /\ timeoutId' = null /\ intervalId' = null
           /\ isRevealed' = isRevealed /\ progress' = progress)]_vars

\* C10 witness: the view was torn down while the PIN was revealed; the timers
\* are gone and isRevealed is still true.
C10_Witness ==
    destroyed /\ isRevealed /\ progress > 0 /\ timers = {} /\ ~Armed

\* the controller's reveal state as a record: the fields and the platform's
\* timers
Controller ==
    [isRevealed |-> isRevealed, progress |-> progress, timeoutId |-> timeoutId,
     intervalId |-> intervalId, timers |-> timers]

\* hidePin turned into a toggle
hidePinToggles(s) ==
    [isRevealed |-> ~s.isRevealed, progress |-> 0, timeoutId |-> null,
     intervalId |-> null,
     timers |-> {t \in s.timers :
                    /\ ~(s.timeoutId # null /\ t.id = s.timeoutId)
                    /\ ~(s.intervalId # null /\ t.id = s.intervalId)}]

\* hidePin and clearTimers (lines 119-131) as a function of the state
hidePin(s) ==
    [isRevealed |-> FALSE, progress |-> 0, timeoutId |-> null,
     intervalId |-> null,
     timers |-> {t \in s.timers :
                    /\ ~(s.timeoutId # null /\ t.id = s.timeoutId)
                    /\ ~(s.intervalId # null /\ t.id = s.intervalId)}]

\* C27: in every reachable state, hidePin applied twice gives what hidePin
\* applied once gives, and applied in state MASKED it changes nothing.
C27_HidePinIdempotent ==
    /\ hidePin(hidePin(Controller)) = hidePin(Controller)
    /\ ~isRevealed => hidePin(Controller) = Controller

\* C27 witness: MASKED again after a reveal, the view alive
C27_Witness ==
    /\ ~isRevealed /\ ~destroyed
    /\ \E i \in 1..Len(calls) : calls[i] = "verified"
    /\ hidePin(Controller) = Controller

\* C28: with no entry, toggleReveal has started no verification, armed no
\* timer and left isRevealed and progress as constructed.
C28_NoEntryNoReveal ==
    entry = "undefined" =>
        /\ calls = <<>>
        /\ timers = {} /\ ~Armed
        /\ ~isRevealed /\ progress = 0

\* C28 witness: ngOnInit found no entry and the view is alive, so that a
\* toggleReveal runs its first line
C28_Witness ==
    entry = "undefined" /\ initPc = "ready" /\ ~destroyed /\ calls = <<>>

\* C29: a step that takes the controller from REVEALED to MASKED starts no
\* verification and shows no alert, leaves progress 0 and both fields null,
\* and leaves no timer live whose callback could run later.
C29_ReMaskIsSynchronous ==
    [][(isRevealed /\ ~isRevealed') =>
          /\ progress' = 0
          /\ timeoutId' = null /\ intervalId' = null
          /\ timers' = {}
          /\ calls' = calls /\ alerts' = alerts]_vars

\* C29 witness: masked by hand, before the reveal's three seconds were over
C29_Witness ==
    /\ ~isRevealed /\ ~destroyed
    /\ \E i \in 1..Len(calls) : calls[i] = "verified"
    /\ now < revealedSince + totalMs

\* C30: timeoutId is armed iff intervalId is; while the view is alive both
\* are armed iff the PIN is revealed; once masked no timer of the pair is
\* live, so the re-mask cannot run a second time.
C30_ArmedAsPair ==
    /\ (timeoutId # null) <=> (intervalId # null)
    /\ ~destroyed => (isRevealed <=> timeoutId # null)
    /\ ~isRevealed => timers = {}
    /\ Armed => (TimeoutsLive = {timeoutId} /\ IntervalsLive = {intervalId})

\* C30 witness: the reveal ran its full time and was masked by a timer
C30_Witness ==
    /\ ~isRevealed /\ ~destroyed
    /\ \E i \in 1..Len(calls) : calls[i] = "verified"
    /\ now >= revealedSince + totalMs
    /\ timers = {} /\ ~Armed

\* ======================================================================
\* ApiService.validate (src/src/app/api-service.ts, lines 140-146)
\* ======================================================================

\* ------------------------------------------------------------------ bounds
\* number of dot-separated parts of a generated ip argument
MaxParts == 5
\* length of a generated port argument
MaxPortLen == 5

Digits == {"0", "1", "2", "3", "4", "5", "6", "7", "8", "9"}
DigitSeq == <<"0", "1", "2", "3", "4", "5", "6", "7", "8", "9">>
DigitVal(c) == (CHOOSE k \in 1..10 : DigitSeq[k] = c) - 1
AllDigits(s) == \A k \in 1..Len(s) : s[k] \in Digits

\* the number a string of decimal digits denotes
RECURSIVE DecValue(_)
DecValue(s) ==
    IF Len(s) = 0 THEN 0
    ELSE 10 * DecValue(SubSeq(s, 1, Len(s) - 1)) + DigitVal(s[Len(s)])

HasPrefix(s, p) == Len(s) >= Len(p) /\ SubSeq(s, 1, Len(p)) = p

\* ipRegex, first group: (192\.168\.|10\.|172\.(1[6-9]|2[0-9]|3[0-1]))
\* the lengths of the prefixes of s the group matches
PrefixEnds(s) ==
    {n \in {8} : HasPrefix(s, <<"1", "9", "2", ".", "1", "6", "8", ".">>)}
    \cup {n \in {3} : HasPrefix(s, <<"1", "0", ".">>)}
    \cup {n \in {6} : /\ HasPrefix(s, <<"1", "7", "2", ".">>)
                      /\ Len(s) >= 6
                      /\ \/ s[5] = "1" /\ s[6] \in {"6", "7", "8", "9"}
                         \/ s[5] = "2" /\ s[6] \in Digits
                         \/ s[5] = "3" /\ s[6] \in {"0", "1"}}

\* ipRegex, one repetition of ([0-9]{1,3}\.) started at a position of `from`
GroupEnds(s, from) ==
    {q \in 1..Len(s) :
        \E p \in from, k \in 1..3 :
            /\ q = p + k + 1
            /\ AllDigits(SubSeq(s, p + 1, p + k))
            /\ s[q] = "."}

\* ipRegex, the end: [0-9]{1,3}$
TailOk(s, p) ==
    /\ Len(s) - p \in 1..3
    /\ AllDigits(SubSeq(s, p + 1, Len(s)))

\* line 141-142: ipRegex.test(ip), with
\* /^(192\.168\.|10\.|172\.(1[6-9]|2[0-9]|3[0-1]))([0-9]{1,3}\.){1,2}[0-9]{1,3}$/
ipRegexTest(s) ==
    LET once == GroupEnds(s, PrefixEnds(s))
        twice == GroupEnds(s, once)
    IN \E p \in once \cup twice : TailOk(s, p)

WhiteSpace == {" ", "\t", "\n"}

RECURSIVE TrimStart(_)
TrimStart(s) ==
    IF Len(s) > 0 /\ s[1] \in WhiteSpace THEN TrimStart(SubSeq(s, 2, Len(s))) ELSE s

\* the longest prefix of s made of decimal digits
RECURSIVE DigitRun(_)
DigitRun(s) ==
    IF Len(s) > 0 /\ s[1] \in Digits
    THEN <<s[1]>> \o DigitRun(SubSeq(s, 2, Len(s)))
    ELSE <<>>

\* NaN is <<>>, a number n is <<n>>
NaN == <<>>

\* line 144: parseInt(port, 10): leading white space is skipped, a sign is
\* read, then the longest run of digits; what follows is ignored; NaN when
\* there is no digit.
parseInt(str) ==
    LET t == TrimStart(str)
        signed == Len(t) > 0 /\ t[1] \in {"+", "-"}
        negative == Len(t) > 0 /\ t[1] = "-"
        d == DigitRun(IF signed THEN SubSeq(t, 2, Len(t)) ELSE t)
    IN IF d = <<>> THEN NaN
       ELSE <<(IF negative THEN -1 ELSE 1) * DecValue(d)>>

\* validate (lines 140-146): "ok" when it returns, else the error it throws
validate(i, p) ==
    IF ~ipRegexTest(i) THEN "Nur interne IP erlaubt"
    ELSE LET n == parseInt(p)
         IN IF n = NaN \/ n[1] = 0 \/ n[1] < 1 \/ n[1] > 65535
            THEN "Port ungueltig"
            ELSE "ok"

\* ---------------------------------------------------------------- inputs
RECURSIVE Join(_)
Join(ps) ==
    IF Len(ps) = 1 THEN ps[1]
    ELSE ps[1] \o <<".">> \o Join(SubSeq(ps, 2, Len(ps)))

IpParts ==
    { <<"1", "0">>, <<"1", "7", "2">>, <<"1", "9", "2">>, <<"1", "6", "8">>,
      <<"1", "6">>, <<"1", "6", "1">>, <<"0">>, <<"8">> }

Ip192 == <<"1", "9", "2", ".", "1", "6", "8", ".", "1", ".", "5">>
Ip172 == <<"1", "7", "2", ".", "1", "6", ".", "0", ".", "1">>
Ip172161 == <<"1", "7", "2", ".", "1", "6", "1", ".", "2", ".", "3">>
Ip10 == <<"1", "0", ".", "0", ".", "0", ".", "1">>
Ip8 == <<"8", ".", "8", ".", "8", ".", "8">>

Ips ==
    {Join(ps) : ps \in UNION {[1..n -> IpParts] : n \in 1..MaxParts}}
    \cup {Ip192, Ip172, Ip172161, Ip10, Ip8, <<>>,
          <<"1", "7", "2", ".", "3", "1", ".", "2", "5", "5", ".", "9">>,
          <<"1", "7", "2", ".", "3", "2", ".", "0", ".", "1">>,
          <<"1", "0", ".", "0", ".", "0", ".", "2", "5", "6">>,
          <<"1", "9", "2", ".", "1", "6", "8", ".", "1", ".", "x">>}

Port8080 == <<"8", "0", "8", "0">>
Port9090 == <<"9", "0", "9", "0">>
Port70000 == <<"7", "0", "0", "0", "0">>
Port80abc == <<"8", "0", "a", "b", "c">>

PortChars == {"0", "7", "a", " "}
Ports ==
    UNION {[1..n -> PortChars] : n \in 0..MaxPortLen}
    \cup {Port8080, Port9090, Port70000, Port80abc,
          <<"6", "5", "5", "3", "5">>, <<"6", "5", "5", "3", "6">>, <<"1">>,
          <<"8", "0", ".", "5">>, <<"+", "8", "0">>, <<"-", "5">>}

\* ------------------------------------------------- what the claims state
RECURSIVE Split(_)
Split(s) ==
    IF \A k \in 1..Len(s) : s[k] # "." THEN <<s>>
    ELSE LET k == CHOOSE k \in 1..Len(s) :
                     s[k] = "." /\ \A j \in 1..(k - 1) : s[j] # "."
         IN <<SubSeq(s, 1, k - 1)>> \o Split(SubSeq(s, k + 1, Len(s)))

IsOctet(x) == Len(x) \in 1..3 /\ AllDigits(x) /\ DecValue(x) <= 255

\* a dotted quad in 10.x.x.x, 172.16.x.x - 172.31.x.x or 192.168.x.x
IsPrivateQuad(s) ==
    LET ps == Split(s)
    IN /\ Len(ps) = 4
       /\ \A k \in 1..4 : IsOctet(ps[k])
       /\ \/ DecValue(ps[1]) = 10
          \/ DecValue(ps[1]) = 172 /\ DecValue(ps[2]) \in 16..31
          \/ DecValue(ps[1]) = 192 /\ DecValue(ps[2]) = 168

\* the string is a decimal integer in [1, 65535]
DenotesPort(p) == Len(p) > 0 /\ AllDigits(p) /\ DecValue(p) \in 1..65535

\* ------------------------------------------------------- specification
allVars == <<vars, apiVars, restVars>>

ValidateInit ==
    /\ PinInit /\ ConnQuiet /\ HttpQuiet /\ RestQuiet
    /\ verdict = "called"
    /\ \/ argIp \in Ips /\ argPort = Port8080
       \/ argIp = Ip192 /\ argPort \in Ports

\* setConnection line 102: this.validate(ip, port)
ValidateRuns ==
    /\ verdict = "called"
    /\ verdict' = validate(argIp, argPort)
    /\ UNCHANGED <<vars, argIp, argPort, connVars, httpVars, restVars>>

SpecValidate == ValidateInit /\ [][ValidateRuns]_allVars

\* C11 (as claimed): with a port in range, the ip is accepted exactly when it
\* is a dotted quad in a private range.
C11_AcceptsExactlyPrivateQuads ==
    (verdict # "called" /\ DenotesPort(argPort)) =>
        ((verdict = "ok") <=> IsPrivateQuad(argIp))

\* C12 (as claimed): with a valid ip, the port is accepted exactly when the
\* string is a decimal integer in [1, 65535].
C12_AcceptsExactlyPortsInRange ==
    (verdict # "called" /\ ipRegexTest(argIp) /\ IsPrivateQuad(argIp)) =>
        ((verdict = "ok") <=> DenotesPort(argPort))

\* ======================================================================
\* ApiService.init / setConnection (src/src/app/api-service.ts, lines 83-131)
\* ======================================================================

\* ------------------------------------------------------------------ bounds
\* setConnection calls in one behaviour
MaxConns == 2
\* process stops (each followed by init) in one behaviour
MaxRestarts == 1

\* arguments tried: two endpoints validate accepts, an ip and a port it rejects
ConnIps == {Ip192, Ip10, Ip8}
ConnPorts == {Port8080, Port9090, Port70000}

\* line 130: `http://${ip}:${port}/api`
Url(i, p) ==
    <<"h", "t", "t", "p", ":", "/", "/">> \o i \o <<":">> \o p
        \o <<"/", "a", "p", "i">>

\* lines 129-131: buildBaseUrl reads this.ip and this.port
buildBaseUrl == baseUrl' = Url(ip, port)

\* lines 87-88: value ?? ''
OrEmpty(v) == IF v = <<>> THEN <<>> ELSE v[1]

InFlight(c) == conns[c].pc \in {"writeIp", "writePort"}

ConnInit == PinInit /\ ValQuiet /\ HttpQuiet /\ ConnQuiet /\ RestQuiet

\* a rejecting setConnection that assigns the fields before it throws
SetConnectionRejectedLate(i, p) ==
    /\ Len(conns) < MaxConns
    /\ validate(i, p) # "ok"
    /\ ip' = i /\ port' = p
    /\ conns' = Append(conns, [ip |-> i, port |-> p, pc |-> "invalid"])
    /\ UNCHANGED <<baseUrl, store, writes, restarts>>

\* line 102: validate throws, setConnection rejects
SetConnectionRejected(i, p) ==
    /\ Len(conns) < MaxConns
    /\ validate(i, p) # "ok"
    /\ conns' = Append(conns, [ip |-> i, port |-> p, pc |-> "invalid"])
    /\ UNCHANGED <<ip, port, baseUrl, store, writes, restarts>>

\* lines 102-107: validate passes, the fields are assigned, the write of
\* server_ip is issued and the call awaits it
SetConnectionStarts(i, p) ==
    /\ Len(conns) < MaxConns
    /\ validate(i, p) = "ok"
    /\ ip' = i /\ port' = p
    /\ conns' = Append(conns, [ip |-> i, port |-> p, pc |-> "writeIp"])
    /\ writes' = Append(writes, [call |-> Len(conns) + 1, key |-> "server_ip", value |-> i])
    /\ UNCHANGED <<baseUrl, store, restarts>>

\* lines 107-108: the write of server_ip resolves; the call resumes and
\* issues the write of server_port
IpWriteCompletes(c) ==
    /\ conns[c].pc = "writeIp"
    /\ store' = [store EXCEPT !.server_ip = <<conns[c].ip>>]
    /\ conns' = [conns EXCEPT ![c].pc = "writePort"]
    /\ writes' = Append(writes, [call |-> c, key |-> "server_port", value |-> conns[c].port])
    /\ UNCHANGED <<ip, port, baseUrl, restarts>>

\* line 107: the write of server_ip rejects; setConnection rejects
IpWriteFails(c) ==
    /\ conns[c].pc = "writeIp"
    /\ conns' = [conns EXCEPT ![c].pc = "failed"]
    /\ UNCHANGED <<ip, port, baseUrl, store, writes, restarts>>

\* lines 108-110: the write of server_port resolves; buildBaseUrl
PortWriteCompletes(c) ==
    /\ conns[c].pc = "writePort"
    /\ store' = [store EXCEPT !.server_port = <<conns[c].port>>]
    /\ conns' = [conns EXCEPT ![c].pc = "done"]
    /\ buildBaseUrl
    /\ UNCHANGED <<ip, port, writes, restarts>>

\* line 108: the write of server_port rejects; setConnection rejects
PortWriteFails(c) ==
    /\ conns[c].pc = "writePort"
    /\ conns' = [conns EXCEPT ![c].pc = "failed"]
    /\ UNCHANGED <<ip, port, baseUrl, store, writes, restarts>>

\* the process stops (pending calls never resume, the store stays) and the
\* app starts again: fields as constructed (lines 72-74), then init
\* (lines 83-91, run by APP_INITIALIZER before any page exists)
Restart ==
    /\ restarts < MaxRestarts
    /\ restarts' = restarts + 1
    /\ conns' = [c \in DOMAIN conns |->
                    IF InFlight(c) THEN [conns[c] EXCEPT !.pc = "stopped"]
                    ELSE conns[c]]
    /\ ip' = OrEmpty(store.server_ip)
    /\ port' = OrEmpty(store.server_port)
    /\ baseUrl' = IF ip' # <<>> /\ port' # <<>> THEN Url(ip', port') ELSE <<>>
    /\ UNCHANGED <<store, writes>>

notConn == <<vars, valVars, httpVars, restVars>>

ConnNext ==
    \/ \E i \in ConnIps, p \in ConnPorts : SetConnectionRejected(i, p) /\ UNCHANGED notConn
    \/ \E i \in ConnIps, p \in ConnPorts : SetConnectionStarts(i, p) /\ UNCHANGED notConn
    \/ \E c \in DOMAIN conns : IpWriteCompletes(c) /\ UNCHANGED notConn
    \/ \E c \in DOMAIN conns : IpWriteFails(c) /\ UNCHANGED notConn
    \/ \E c \in DOMAIN conns : PortWriteCompletes(c) /\ UNCHANGED notConn
    \/ \E c \in DOMAIN conns : PortWriteFails(c) /\ UNCHANGED notConn
    \/ Restart /\ UNCHANGED notConn

SpecConn == ConnInit /\ [][ConnNext]_allVars

Args(c) == [server_ip |-> <<conns[c].ip>>, server_port |-> <<conns[c].port>>]

\* C13: a setConnection whose arguments fail validation changes neither ip,
\* port, baseUrl nor the persisted keys, and issues no write.
C13_RejectedChangesNothing ==
    [][(/\ Len(conns') = Len(conns) + 1
        /\ validate(conns'[Len(conns')].ip, conns'[Len(conns')].port) # "ok")
       => /\ conns'[Len(conns')].pc = "invalid"
          /\ UNCHANGED <<ip, port, baseUrl, store, writes>>]_allVars

\* a rejected call made while another endpoint is active and persisted
C13_Witness ==
    \E c \in DOMAIN conns :
        /\ conns[c].pc = "invalid"
        /\ baseUrl # <<>> /\ ip # conns[c].ip
        /\ store.server_ip # <<>> /\ store.server_port # <<>>

\* C14 (as claimed): when a setConnection call completes, baseUrl is the URL
\* of that call's arguments and both arguments are the persisted pair,
\* whatever other calls are in flight.
C14_CompletionActivatesOwnArgs ==
    [][\A c \in DOMAIN conns :
          (conns[c].pc = "writePort" /\ conns'[c].pc = "done")
          => /\ baseUrl' = Url(conns[c].ip, conns[c].port)
             /\ store' = Args(c)]_allVars

\* C14, second half: baseUrl changes only when a setConnection completes
\* (init runs in Restart)
C14_OnlyCompletionChangesUrl ==
    [][baseUrl' # baseUrl =>
          \/ restarts' # restarts
          \/ \E c \in DOMAIN conns :
                conns[c].pc = "writePort" /\ conns'[c].pc = "done"]_allVars

\* C15 (as claimed): the active baseUrl is never one whose configuration
\* failed to persist: it is the URL of a call both of whose writes completed,
\* or the URL init built from the store.
C15_ActiveUrlWasPersisted ==
    baseUrl # <<>> =>
        \/ \E c \in DOMAIN conns :
              conns[c].pc = "done" /\ baseUrl = Url(conns[c].ip, conns[c].port)
        \/ /\ restarts > 0
           /\ baseUrl = Url(OrEmpty(store.server_ip), OrEmpty(store.server_port))

\* C15, the ordering alone: a call's server_port write is issued in the step
\* its server_ip write completes, baseUrl is rebuilt only by the step in which
\* a server_port write completes, and a failing write leaves baseUrl alone.
C15_OrderingHolds ==
    [][/\ \A c \in DOMAIN conns :
            /\ (conns[c].pc = "writeIp" /\ conns'[c].pc = "writePort")
               <=> (/\ Len(writes') = Len(writes) + 1
                    /\ writes'[Len(writes')] =
                         [call |-> c, key |-> "server_port", value |-> conns[c].port]
                    /\ store'.server_ip = <<conns[c].ip>>)
            /\ (InFlight(c) /\ conns'[c].pc = "failed") => baseUrl' = baseUrl
       /\ (baseUrl' # baseUrl /\ restarts' = restarts) =>
            \E c \in DOMAIN conns : conns[c].pc = "writePort" /\ conns'[c].pc = "done"
      ]_allVars

\* C16 (as claimed): whenever both keys are present, the persisted pair is
\* the (ip, port) of one single setConnection call.
C16_PersistedPairFromOneCall ==
    (store.server_ip # <<>> /\ store.server_port # <<>>) =>
        \E c \in DOMAIN conns : store = Args(c)

\* C16, the consequence: what init activates is the URL of one call
C16_InitUrlFromOneCall ==
    [][(restarts' # restarts /\ baseUrl' # <<>>) =>
          \E c \in DOMAIN conns :
              baseUrl' = Url(conns[c].ip, conns[c].port)]_allVars

\* C17 (as claimed): ip and port both set implies baseUrl is their URL, and
\* baseUrl set implies ip and port both set.
C17_UrlMatchesFields ==
    /\ (ip # <<>> /\ port # <<>>) => baseUrl = Url(ip, port)
    /\ baseUrl # <<>> => (ip # <<>> /\ port # <<>>)

\* C17, the converse alone
C17_UrlOnlyWithFields == baseUrl # <<>> => (ip # <<>> /\ port # <<>>)

\* ======================================================================
\* ApiService.list / latest / export / import / health
\* (src/src/app/api-service.ts, lines 154-263) and their callers
\* ======================================================================

\* ------------------------------------------------------------------ bounds
\* ApiService operations invoked in one behaviour
MaxOps == 2

\* environment.backupApi.apiKey
apiKey == "CHANGE_ME"

\* lines 164-170
headers ==
    { <<"Accept", "application/json">>,
      <<"Content-Type", "application/json">>,
      <<"X-API-KEY", apiKey>> }

\* line 260: the headers health() builds itself
healthHeaders == { <<"Accept", "application/json">> }

\* line 179: replace(/\/+$/, '')
RECURSIVE StripSlashes(_)
StripSlashes(s) ==
    IF Len(s) > 0 /\ s[Len(s)] = "/" THEN StripSlashes(SubSeq(s, 1, Len(s) - 1))
    ELSE s

\* lines 178-182, for the paths the operations pass (all start with "/")
url(path) == [base |-> StripSlashes(baseUrl), path |-> path]

\* the request each operation builds: method, path, headers
RequestOf(k, op) ==
    CASE op = "list" -> [call |-> k, method |-> "GET", url |-> url("/backups/?app="), headers |-> headers]
      [] op = "latest" -> [call |-> k, method |-> "GET", url |-> url("/backups/latest/?app="), headers |-> headers]
      [] op = "export" -> [call |-> k, method |-> "POST", url |-> url("/backups/export/"), headers |-> headers]
      [] op = "import" -> [call |-> k, method |-> "POST", url |-> url("/backups/import/"), headers |-> headers]
      [] op = "health" -> [call |-> k, method |-> "GET", url |-> url("/health"), headers |-> healthHeaders]

\* the handlers that call ApiService, with the operation each calls once
Callers ==
    { <<"HomePage.exportJSON", "export">>,
      <<"HomePage.importJSON", "latest">>,
      <<"HomePage.listImport", "list">>,
      <<"HomePage.listImport.handler", "import">>,
      <<"HomePage.health", "health">>,
      <<"Socket.saveIp", "health">> }

\* what the HTTP layer can fail with
HttpFailures == {"transport error", "non-2xx response"}

RequestsOf(k) == {j \in DOMAIN requests : requests[j].call = k}

\* the endpoint the operations run against: none, one loaded by init, or
\* the fields left by a setConnection whose write failed
HttpInit ==
    /\ PinInit /\ ValQuiet /\ HttpQuiet /\ RestQuiet
    /\ conns = <<>> /\ writes = <<>> /\ restarts = 0
    /\ \/ /\ ip = <<>> /\ port = <<>> /\ baseUrl = <<>>
          /\ store = [server_ip |-> <<>>, server_port |-> <<>>]
       \/ /\ ip = Ip192 /\ port = Port8080 /\ baseUrl = Url(Ip192, Port8080)
          /\ store = [server_ip |-> <<Ip192>>, server_port |-> <<Port8080>>]
       \/ /\ ip = Ip192 /\ port = Port8080 /\ baseUrl = <<>>
          /\ store = [server_ip |-> <<>>, server_port |-> <<>>]

\* an unconfigured operation that sends its request all the same
InvokeUnconfiguredSends(by, op) ==
    /\ Len(ops) < MaxOps
    /\ baseUrl = <<>>
    /\ by # "Socket.saveIp"
    /\ ops' = Append(ops, [by |-> by, op |-> op, pc |-> "pending", error |-> ""])
    /\ requests' = Append(requests, RequestOf(Len(ops) + 1, op))

\* lines 154-157 via url(): getBaseUrl throws inside the async operation
\* before http.get / http.post is called; the promise is rejected
InvokeUnconfigured(by, op) ==
    /\ Len(ops) < MaxOps
    /\ baseUrl = <<>>
    /\ by # "Socket.saveIp"        \* saveIp calls health after setConnection
    /\ ops' = Append(ops, [by |-> by, op |-> op, pc |-> "rejected",
                           error |-> "Server nicht gesetzt"])
    /\ UNCHANGED requests

\* lines 190-263: the operation builds its request and awaits firstValueFrom
InvokeConfigured(by, op) ==
    /\ Len(ops) < MaxOps
    /\ baseUrl # <<>>
    /\ ops' = Append(ops, [by |-> by, op |-> op, pc |-> "pending", error |-> ""])
    /\ requests' = Append(requests, RequestOf(Len(ops) + 1, op))

\* the response arrives; the promise resolves
Responds(k) ==
    /\ ops[k].pc = "pending"
    /\ ops' = [ops EXCEPT ![k].pc = "resolved"]
    /\ UNCHANGED requests

\* a failing operation that sends its request once more
FailsAndRetries(k, e) ==
    /\ ops[k].pc = "pending"
    /\ ops' = ops
    /\ requests' = Append(requests, RequestOf(k, ops[k].op))

\* the observable errors; firstValueFrom rejects, the operation rejects and
\* the caller's catch alerts
Fails(k, e) ==
    /\ ops[k].pc = "pending"
    /\ ops' = [ops EXCEPT ![k].pc = "rejected", ![k].error = e]
    /\ UNCHANGED requests

\* socket.ts lines 147-155: the 3000 ms timer of timeoutHealthCheck wins the
\* race; saveIp's catch alerts 'Server Timeout'
SaveIpTimesOut(k) ==
    /\ ops[k].pc = "pending"
    /\ ops[k].by = "Socket.saveIp"
    /\ ops' = [ops EXCEPT ![k].pc = "rejected", ![k].error = "Server Timeout"]
    /\ UNCHANGED requests

notHttp == <<vars, valVars, connVars, restVars>>

HttpNext ==
    \/ \E cl \in Callers : InvokeUnconfigured(cl[1], cl[2]) /\ UNCHANGED notHttp
    \/ \E cl \in Callers : InvokeConfigured(cl[1], cl[2]) /\ UNCHANGED notHttp
    \/ \E k \in DOMAIN ops : Responds(k) /\ UNCHANGED notHttp
    \/ \E k \in DOMAIN ops, e \in HttpFailures : Fails(k, e) /\ UNCHANGED notHttp
    \/ \E k \in DOMAIN ops : SaveIpTimesOut(k) /\ UNCHANGED notHttp

SpecHttp == HttpInit /\ [][HttpNext]_allVars

\* C18: an operation invoked while baseUrl is empty is rejected with
\* 'Server nicht gesetzt', issues no HTTP request and changes no state.
C18_UnconfiguredRejects ==
    [][(Len(ops') = Len(ops) + 1 /\ baseUrl = <<>>)
       => /\ ops'[Len(ops')].pc = "rejected"
          /\ ops'[Len(ops')].error = "Server nicht gesetzt"
          /\ UNCHANGED <<requests, connVars>>]_allVars

\* an operation was rejected as unconfigured although ip and port are set
C18_Witness ==
    \E k \in DOMAIN ops :
        /\ ops[k].error = "Server nicht gesetzt"
        /\ ip # <<>> /\ baseUrl = <<>> /\ requests = <<>>

\* C19 (as claimed): every request issued carries X-API-KEY with the
\* configured key.
C19_EveryRequestHasApiKey ==
    \A j \in DOMAIN requests : <<"X-API-KEY", apiKey>> \in requests[j].headers

\* C19, without health: the four backup operations carry the key
C19_BackupRequestsHaveApiKey ==
    \A j \in DOMAIN requests :
        ops[requests[j].call].op # "health"
            => <<"X-API-KEY", apiKey>> \in requests[j].headers

\* C20: no call has more than one HTTP request, and a call that failed or
\* timed out has had exactly the one request it issued.
C20_SingleAttempt ==
    /\ \A k \in DOMAIN ops : Cardinality(RequestsOf(k)) <= 1
    /\ \A j \in DOMAIN requests : requests[j].call \in DOMAIN ops
    /\ \A k \in DOMAIN ops :
          ops[k].error \in HttpFailures \cup {"Server Timeout"}
              => Cardinality(RequestsOf(k)) = 1

\* a failed backup operation and a timed-out saveIp, one request each
C20_Witness ==
    /\ \E k \in DOMAIN ops :
          ops[k].error \in HttpFailures /\ Cardinality(RequestsOf(k)) = 1
    /\ \E k \in DOMAIN ops :
          ops[k].error = "Server Timeout" /\ Cardinality(RequestsOf(k)) = 1

\* ======================================================================
\* SocketPage.saveIp / timeoutHealthCheck
\* (src/src/app/socket/socket.ts, lines 132-155)
\* ======================================================================

\* ------------------------------------------------------------------ bounds
\* saveIp executions in one behaviour
MaxSaves == 3

\* a saveIp execution:
\*   pc      "setConnection" (awaiting it), "race" (awaiting
\*           timeoutHealthCheck), "done"
\*   health  the promise of api.health(): "none", "pending", "resolved",
\*           "failed"
\*   timer   the setTimeout of line 149: "none", "armed", "fired"
\*   result  how the Promise.race settled: "none" (not yet), "ok", or the
\*           error's message
\*   settles how many times saveIp went on from the race
\*   arg     this.ip and this.port as passed to setConnection (line 137)
NewRun == [pc |-> "setConnection", health |-> "none", timer |-> "none",
           result |-> "none", settles |-> 0, arg |-> <<>>]

\* what the user has typed into the two fields when saveIp is called: two
\* endpoints validate accepts and one it rejects
SaveInputs == { [ip |-> Ip192, port |-> Port8080],
                [ip |-> Ip10, port |-> Port9090],
                [ip |-> Ip8, port |-> Port8080] }
\* api-service.ts line 102: the inputs validate lets pass
AcceptedInputs == {e \in SaveInputs : validate(e.ip, e.port) = "ok"}
Accepted(e) == e \in AcceptedInputs

\* the endpoint held by ApiService and by Preferences
endVars == <<ip, port, baseUrl, store>>

\* Promise.race, mutated: every settlement of a branch settles the race
WinsAlways(run) == TRUE

\* Promise.race (lines 151-154): a branch settles the race only while the
\* race is unsettled; a later resolve / reject of a settled promise is a no-op
Wins(run) == run.result = "none"

RaceInit == PinInit /\ ApiQuiet /\ RestQuiet

\* line 133: if(this.loading) return
SaveIpBusy ==
    /\ loading
    /\ UNCHANGED <<raceVars, endVars>>

\* saveIp without line 133
SaveIpStartsParallel(e) ==
    /\ Len(runs) < MaxSaves
    /\ loading' = TRUE
    /\ runs' = Append(runs, [NewRun EXCEPT !.arg = e])
    /\ IF Accepted(e) THEN ip' = e.ip /\ port' = e.port
                      ELSE UNCHANGED <<ip, port>>
    /\ UNCHANGED <<navs, notices, baseUrl, store>>

\* lines 132-137: loading = true, setConnection is called and awaited;
\* setConnection (api-service.ts lines 101-105) validates and, when that
\* passes, assigns this.ip and this.port before its first await
SaveIpStarts(e) ==
    /\ ~loading
    /\ Len(runs) < MaxSaves
    /\ loading' = TRUE
    /\ runs' = Append(runs, [NewRun EXCEPT !.arg = e])
    /\ IF Accepted(e) THEN ip' = e.ip /\ port' = e.port
                      ELSE UNCHANGED <<ip, port>>
    /\ UNCHANGED <<navs, notices, baseUrl, store>>

\* line 137 rejects: validate has thrown, or one of the two Preferences.set
\* calls (api-service.ts lines 107-108) has failed, the second one after
\* server_ip was written (`wrote`); catch alerts (line 141), loading = false
\* (line 143)
SetConnectionThrows(r, wrote) ==
    /\ runs[r].pc = "setConnection"
    /\ wrote => Accepted(runs[r].arg)
    /\ runs' = [runs EXCEPT ![r].pc = "done"]
    /\ store' = IF wrote THEN [store EXCEPT !.server_ip = <<runs[r].arg.ip>>]
                         ELSE store
    /\ notices' = notices + 1
    /\ loading' = FALSE
    /\ UNCHANGED <<navs, ip, port, baseUrl>>

\* the probe is started before the endpoint is written and activated
RaceStartsUnsaved(r) ==
    /\ runs[r].pc = "setConnection"
    /\ Accepted(runs[r].arg)
    /\ runs' = [runs EXCEPT ![r].pc = "race", ![r].timer = "armed",
                            ![r].health = "pending"]
    /\ UNCHANGED <<loading, navs, notices, endVars>>

\* line 137 resolves: both keys are written and buildBaseUrl has run
\* (api-service.ts lines 107-110); timeoutHealthCheck (lines 147-155) arms
\* the 3000 ms timer, calls api.health() and awaits the race
RaceStarts(r) ==
    /\ runs[r].pc = "setConnection"
    /\ Accepted(runs[r].arg)
    /\ runs' = [runs EXCEPT ![r].pc = "race", ![r].timer = "armed",
                            ![r].health = "pending"]
    /\ store' = [server_ip |-> <<runs[r].arg.ip>>,
                 server_port |-> <<runs[r].arg.port>>]
    /\ buildBaseUrl
    /\ UNCHANGED <<loading, navs, notices, ip, port>>

\* saveIp going on to line 139 whatever the race's outcome
SaveIpResumesNavigates(r, after, res) ==
    /\ runs' = [runs EXCEPT ![r] = [after EXCEPT !.pc = "done", !.result = res,
                                                 !.settles = @ + 1]]
    /\ navs' = navs + 1
    /\ notices' = notices
    /\ loading' = FALSE
    /\ UNCHANGED endVars

\* saveIp after the race settled with `res`: navigate (line 139) or alert
\* (line 141), then loading = false (line 143); `after` is the run with the
\* settling branch's own promise settled
SaveIpResumes(r, after, res) ==
    /\ runs' = [runs EXCEPT ![r] = [after EXCEPT !.pc = "done", !.result = res,
                                                 !.settles = @ + 1]]
    /\ navs' = IF res = "ok" THEN navs + 1 ELSE navs
    /\ notices' = IF res = "ok" THEN notices ELSE notices + 1
    /\ loading' = FALSE
    /\ UNCHANGED endVars

\* a branch of the race settles with `res`
BranchSettles(r, after, res) ==
    IF Wins(runs[r])
    THEN SaveIpResumes(r, after, res)
    ELSE /\ runs' = [runs EXCEPT ![r] = after]
         /\ UNCHANGED <<loading, navs, notices, endVars>>

\* api.health() resolves
HealthResolves(r) ==
    /\ runs[r].health = "pending"
    /\ BranchSettles(r, [runs[r] EXCEPT !.health = "resolved"], "ok")

\* api.health() rejects with the error of the HTTP layer
HealthFails(r) ==
    /\ runs[r].health = "pending"
    /\ BranchSettles(r, [runs[r] EXCEPT !.health = "failed"], "transport error")

\* line 149: the timer's callback rejects with Error('Server Timeout')
RaceTimerFires(r) ==
    /\ runs[r].timer = "armed"
    /\ BranchSettles(r, [runs[r] EXCEPT !.timer = "fired"], "Server Timeout")

notRace == <<vars, valVars, conns, writes, restarts, httpVars, bioVars, listVars, lateVars>>

RaceNext ==
    \/ SaveIpBusy /\ UNCHANGED notRace
    \/ \E e \in SaveInputs : SaveIpStarts(e) /\ UNCHANGED notRace
    \/ \E r \in DOMAIN runs, wrote \in BOOLEAN :
          SetConnectionThrows(r, wrote) /\ UNCHANGED notRace
    \/ \E r \in DOMAIN runs : RaceStarts(r) /\ UNCHANGED notRace
    \/ \E r \in DOMAIN runs : HealthResolves(r) /\ UNCHANGED notRace
    \/ \E r \in DOMAIN runs : HealthFails(r) /\ UNCHANGED notRace
    \/ \E r \in DOMAIN runs : RaceTimerFires(r) /\ UNCHANGED notRace

SpecRace == RaceInit /\ [][RaceNext]_allVars

BothPending(run) == run.health = "pending" /\ run.timer = "armed"
OneSettled(run) ==
    run.pc # "setConnection" /\ run.health # "none" /\ ~BothPending(run)

\* C21: the race of a saveIp execution settles exactly once, with the first
\* of its branches to settle and no later than the 3000 ms timer fires: it
\* resolves when api.health() resolves first, rejects with 'Server Timeout'
\* when the timer fires first and with the transport error when api.health()
\* fails first; the settlement of the other branch changes neither the
\* result nor navigation, alerts or loading.
C21_RaceSettlesOnce ==
    [][\A r \in DOMAIN runs :
          /\ (BothPending(runs[r]) /\ ~BothPending(runs'[r])) =>
                /\ runs'[r].settles = 1 /\ runs'[r].pc = "done"
                /\ runs'[r].result = "ok" <=> runs'[r].health = "resolved"
                /\ runs'[r].result = "transport error" <=> runs'[r].health = "failed"
                /\ runs'[r].result = "Server Timeout" <=> runs'[r].timer = "fired"
                /\ navs' = navs + (IF runs'[r].result = "ok" THEN 1 ELSE 0)
          /\ (OneSettled(runs[r]) /\ runs'[r] # runs[r]) =>
                /\ runs'[r].settles = 1 /\ runs'[r].result = runs[r].result
                /\ UNCHANGED <<loading, navs, notices>>
          /\ runs'[r].timer = "fired" => runs'[r].settles = 1]_allVars

\* C21 witness: in one execution the timer won and api.health() resolved
\* afterwards, in another api.health() won and the timer fired afterwards
C21_Witness ==
    /\ \E r \in DOMAIN runs :
          runs[r].result = "Server Timeout" /\ runs[r].health = "resolved"
    /\ \E r \in DOMAIN runs :
          runs[r].result = "ok" /\ runs[r].timer = "fired"

\* the event loop runs: a pending Preferences.set settles and the callback
\* of an armed timer is called
SaveIpSettles(r) ==
    /\ r \in DOMAIN runs
    /\ \/ RaceStarts(r)
       \/ \E wrote \in BOOLEAN : SetConnectionThrows(r, wrote)
       \/ RaceTimerFires(r)
    /\ UNCHANGED notRace

SpecRaceFair ==
    SpecRace /\ \A r \in 1..MaxSaves : WF_allVars(SaveIpSettles(r))

Active(r) == runs[r].pc # "done"
Failures == {"transport error", "Server Timeout"}
EndpointIs(e) ==
    /\ store = [server_ip |-> <<e.ip>>, server_port |-> <<e.port>>]
    /\ ip = e.ip /\ port = e.port
    /\ baseUrl = Url(e.ip, e.port)

\* C32: a navigation to /login happens only in the step in which the health
\* call of a saveIp awaiting its race resolves first; a saveIp that ends
\* because setConnection failed, the health call failed or the timer fired
\* first navigates nowhere and shows one alert.
C32_NavigatesOnlyAfterHealth ==
    [][/\ navs' # navs =>
            /\ navs' = navs + 1
            /\ \E r \in DOMAIN runs :
                  /\ runs[r].pc = "race" /\ runs[r].health = "pending"
                  /\ runs'[r].health = "resolved" /\ runs'[r].result = "ok"
       /\ \A r \in DOMAIN runs :
            (Active(r) /\ ~Active(r)' /\ runs'[r].result # "ok") =>
                navs' = navs /\ notices' = notices + 1]_allVars

\* C32 witness: three executions have ended, one in setConnection, one by a
\* failed health call and one by the timer, with no navigation
C32_Witness ==
    /\ navs = 0 /\ notices = 3
    /\ \E r \in DOMAIN runs : runs[r].pc = "done" /\ runs[r].result = "none"
    /\ \E r \in DOMAIN runs : runs[r].result = "transport error"
    /\ \E r \in DOMAIN runs : runs[r].result = "Server Timeout"

\* C33: at most one saveIp is between its start and its end, and loading is
\* true exactly then; a call made while loading is true starts nothing;
\* every started saveIp ends and sets loading back to false.
C33_SaveIpNeverParallel ==
    /\ [](/\ loading <=> \E r \in DOMAIN runs : Active(r)
          /\ Cardinality({r \in DOMAIN runs : Active(r)}) <= 1)
    /\ [][loading => /\ Len(runs') = Len(runs)
                     /\ \A r \in DOMAIN runs : runs'[r].arg = runs[r].arg]_allVars
    /\ (loading ~> ~loading)

\* C33 witness: a second saveIp has started after the first one ended on a
\* failure path
C33_Witness ==
    /\ Len(runs) >= 2 /\ loading
    /\ runs[1].pc = "done" /\ runs[1].result # "ok"
    /\ Active(Len(runs))

\* C38: while the probe of a saveIp is pending, and after it has failed or
\* timed out, the persisted server_ip / server_port, the fields of
\* ApiService and baseUrl are those of that saveIp's input.
C38_EndpointKeptAfterFailedProbe ==
    runs # <<>> =>
        LET run == runs[Len(runs)]
        IN  (run.pc = "race" \/ run.result \in Failures) => EndpointIs(run.arg)

\* C38 witness: an endpoint was saved and probed with success, then another
\* one was saved and its probe timed out
C38_Witness ==
    /\ Len(runs) = 2
    /\ runs[1].result = "ok" /\ runs[2].result = "Server Timeout"
    /\ runs[1].arg # runs[2].arg
    /\ EndpointIs(runs[2].arg)

\* ======================================================================
\* Service.verifyBiometric / loginBiometric
\* (src/src/app/services/service.ts, lines 136-170)
\* ======================================================================

\* ------------------------------------------------------------------ bounds
\* invocations of the two functions in one behaviour
MaxBio == 2

BioFns == {"verifyBiometric", "loginBiometric"}

\* what NativeBiometric.isAvailable can do
AvailabilityOutcomes == {"available", "unavailable", "check failed"}
\* what NativeBiometric.verifyIdentity can do
IdentityOutcomes == {"verified", "user cancel", "hardware error"}

\* the try block left without a catch: the platform's rejection goes out
CatchMissing(fn) == "rejected"

\* lines 148-151 and 167-169: catch, return false
Catch(fn) == "false"

\* alerts shown by the catch block: line 149, none in loginBiometric
CatchAlerts(fn) == IF fn = "verifyBiometric" THEN 1 ELSE 0

BioInit == PinInit /\ ApiQuiet /\ RestQuiet

\* the function is called and runs up to await NativeBiometric.isAvailable
BioCalled(fn) ==
    /\ Len(bioCalls) < MaxBio
    /\ bioCalls' = Append(bioCalls, [fn |-> fn, pc |-> "isAvailable",
                                     saw |-> "nothing", result |-> "pending"])
    /\ UNCHANGED bioAlerts

\* lines 138-139 and 157-158: isAvailable settles
BioAvailability(b, o) ==
    /\ bioCalls[b].pc = "isAvailable"
    /\ CASE o = "available" ->
              /\ bioCalls' = [bioCalls EXCEPT ![b].pc = "verifyIdentity"]
              /\ UNCHANGED bioAlerts
         [] o = "unavailable" ->
              /\ bioCalls' = [bioCalls EXCEPT ![b].pc = "done", ![b].saw = o,
                                              ![b].result = "false"]
              /\ UNCHANGED bioAlerts
         [] o = "check failed" ->
              /\ bioCalls' = [bioCalls EXCEPT ![b].pc = "done", ![b].saw = o,
                                  ![b].result = Catch(bioCalls[b].fn)]
              /\ bioAlerts' = bioAlerts + CatchAlerts(bioCalls[b].fn)

\* lines 141-151 and 160-169: verifyIdentity settles
BioIdentity(b, o) ==
    /\ bioCalls[b].pc = "verifyIdentity"
    /\ IF o = "verified"
       THEN /\ bioCalls' = [bioCalls EXCEPT ![b].pc = "done", ![b].saw = o,
                                            ![b].result = "true"]
            /\ UNCHANGED bioAlerts
       ELSE /\ bioCalls' = [bioCalls EXCEPT ![b].pc = "done", ![b].saw = o,
                                ![b].result = Catch(bioCalls[b].fn)]
            /\ bioAlerts' = bioAlerts + CatchAlerts(bioCalls[b].fn)

notBio == <<vars, apiVars, raceVars, listVars, lateVars>>

BioNext ==
    \/ \E fn \in BioFns : BioCalled(fn) /\ UNCHANGED notBio
    \/ \E b \in DOMAIN bioCalls, o \in AvailabilityOutcomes :
          BioAvailability(b, o) /\ UNCHANGED notBio
    \/ \E b \in DOMAIN bioCalls, o \in IdentityOutcomes :
          BioIdentity(b, o) /\ UNCHANGED notBio

SpecBio == BioInit /\ [][BioNext]_allVars

\* C26: a finished verifyBiometric or loginBiometric has resolved to true or
\* false, never rejected; it resolved to true exactly when verifyIdentity
\* completed without error, and to false when biometry was unavailable, the
\* availability check failed, the user cancelled or the hardware failed.
C26_BiometricNeverThrows ==
    \A b \in DOMAIN bioCalls :
        /\ bioCalls[b].result \in {"pending", "true", "false"}
        /\ bioCalls[b].pc = "done" =>
              /\ bioCalls[b].result \in {"true", "false"}
              /\ bioCalls[b].result = "true" <=> bioCalls[b].saw = "verified"

\* C26 witness: one function saw the user cancel, the other the availability
\* check fail, and both have resolved to false
C26_Witness ==
    /\ \E b \in DOMAIN bioCalls :
          /\ bioCalls[b].fn = "loginBiometric"
          /\ bioCalls[b].saw = "user cancel" /\ bioCalls[b].result = "false"
    /\ \E b \in DOMAIN bioCalls :
          /\ bioCalls[b].fn = "verifyBiometric"
          /\ bioCalls[b].saw = "check failed" /\ bioCalls[b].result = "false"

\* ======================================================================
\* Service: the credential list (src/src/app/services/service.ts, lines
\* 65-133) and the HomePage handlers that change it
\* (src/src/app/home/home.page.ts, lines 113-331)
\* ======================================================================

\* ------------------------------------------------------------------ bounds
\* items HomePage.generate adds to one list
MaxItems == 2

\* String.prototype.trim
RECURSIVE TrimEnd(_)
TrimEnd(s) ==
    IF Len(s) > 0 /\ s[Len(s)] \in WhiteSpace
    THEN TrimEnd(SubSeq(s, 1, Len(s) - 1))
    ELSE s
Trim(s) == TrimEnd(TrimStart(s))

\* toLowerCase / toLocaleLowerCase on the letters used
LowerOf(c) == CASE c = "A" -> "a" [] c = "B" -> "b" [] OTHER -> c
ToLower(s) == [k \in 1..Len(s) |-> LowerOf(s[k])]

\* lines 92 and 94: name.trim().toLocaleLowerCase()
Normalize(n) == ToLower(Trim(n))

\* names and PINs that pass the checks of the forms (generate lines 117-122,
\* ModalComponent.save), typed with or without capitals and blanks
RawNames == { <<"a">>, <<"A", " ">>, <<"b">> }
Pin1234 == <<"1", "2", "3", "4">>
Pin9999 == <<"9", "9", "9", "9">>
\* what the user may type into the form of HomePage.generate
TypedNames == RawNames \cup { <<" ">> }
TypedPins == { Pin1234, <<>>, <<"1", "2">> }
\* what the user may leave in the PIN field of the modal
EditedPins == { Pin9999, <<"1", "2">> }

\* home.page.ts line 119: /^\d{4,8}$/
IsPin(q) == Len(q) \in 4..8 /\ AllDigits(q)

Item(n, q) == [name |-> n, pin |-> q]

\* lines 91-95
existsByName(n) ==
    \E k \in DOMAIN itemList : Normalize(itemList[k].name) = Normalize(n)

\* no two items with the same normalized name
Unique(list) ==
    \A j, k \in DOMAIN list :
        Normalize(list[j].name) = Normalize(list[k].name) => j = k

\* the items of a list as a set of {name, pin} pairs
PairsOf(list) == {list[k] : k \in DOMAIN list}

\* Service.save (lines 83-88): the list is written under 'itemList'
Saved(list) == persisted' = <<list>>

Ended(op, thrown, notice) ==
    lastOp' = [op |-> op, thrown |-> thrown, notice |-> notice,
               served |-> "", found |-> "", calls |-> 0]

ListInit == PinInit /\ ApiQuiet /\ RaceQuiet /\ BioQuiet /\ ListQuiet /\ LateQuiet

\* Service.load (lines 77-80)
Load ==
    /\ itemList' = IF persisted = <<>> THEN <<>> ELSE persisted[1]
    /\ Ended("load", <<>>, "")
    /\ UNCHANGED <<persisted, backups>>

\* Service.add (lines 98-102) called with a colliding name: the error thrown
AddCollisionError == <<"">>

\* HomePage.generate, lines 129-136: the alert for an error thrown by add
GenerateNotice(thrown) ==
    IF thrown = <<"NAME_EXISTS">> THEN "already exists"
    ELSE "unexpected error occurred"

\* HomePage.generate (lines 113-138) with Service.add (lines 98-102)
Generate(rawName, rawPin) ==
    LET n == Trim(rawName)
        q == Trim(rawPin)
    IN /\ Len(itemList) < MaxItems
       /\ UNCHANGED backups
       /\ IF n = <<>> THEN
             Ended("generate", <<>>, "name is required") /\ UNCHANGED <<itemList, persisted>>
          ELSE IF q = <<>> THEN
             Ended("generate", <<>>, "PIN is required") /\ UNCHANGED <<itemList, persisted>>
          ELSE IF ~IsPin(q) THEN
             Ended("generate", <<>>, "PIN must be 4 to 8 digits") /\ UNCHANGED <<itemList, persisted>>
          ELSE IF existsByName(n) THEN
             /\ Ended("add", AddCollisionError, GenerateNotice(AddCollisionError))
             /\ UNCHANGED <<itemList, persisted>>
          ELSE
             /\ itemList' = <<Item(n, q)>> \o itemList
             /\ Saved(itemList')
             /\ Ended("add", <<>>, "")

\* Service.update, lines 126-128: another item has the new name
Collides(index, newName) ==
    \E k \in DOMAIN itemList :
        k # index /\ ToLower(Trim(itemList[k].name)) = ToLower(newName)

\* Service.update, lines 121-129: throws 'NAME_EXISTS'
UpdateThrows(index, rawName) ==
    LET newName == Trim(rawName)
        nameChanged == ToLower(Trim(itemList[index].name)) # ToLower(newName)
    IN nameChanged /\ Collides(index, newName)

\* HomePage.edit (lines 171-204) with ModalComponent.save
\* (modal.component.ts lines 135-147), which dismisses with `updated` only
\* for a name and a PIN that pass its checks, and Service.update
\* (lines 117-133)
Edit(index, rawName, rawPin) ==
    /\ index \in DOMAIN itemList
    /\ UNCHANGED backups
    /\ LET newName == Trim(rawName)
           newPin == Trim(rawPin)
       IN IF newName = <<>>
          THEN /\ Ended("modal.save", <<>>, "name is required")
               /\ UNCHANGED <<itemList, persisted>>
          ELSE IF ~IsPin(newPin)
          THEN /\ Ended("modal.save", <<>>, "PIN must be numeric")
               /\ UNCHANGED <<itemList, persisted>>
          ELSE IF UpdateThrows(index, rawName)
          THEN /\ Ended("update", <<"NAME_EXISTS">>, "already exists")
               /\ UNCHANGED <<itemList, persisted>>
          ELSE /\ itemList' = [itemList EXCEPT ![index] = Item(newName, newPin)]
               /\ Saved(itemList')
               /\ Ended("update", <<>>, "")

\* HomePage.delete (lines 145-164) with Service.remove (lines 105-108)
Delete(index) ==
    /\ index \in DOMAIN itemList
    /\ itemList' = [k \in 1..(Len(itemList) - 1) |->
                       IF k < index THEN itemList[k] ELSE itemList[k + 1]]
    /\ Saved(itemList')
    /\ Ended("remove", <<>>, "")
    /\ UNCHANGED backups

\* Service.clear (lines 111-114)
Clear ==
    /\ itemList' = <<>>
    /\ persisted' = <<>>
    /\ Ended("clear", <<>>, "")
    /\ UNCHANGED backups

\* HomePage.exportJSON (lines 218-247): the envelope carries the current
\* list; the server stores it as its latest backup
ExportJSON ==
    /\ backups' = <<itemList>>
    /\ lastOp' = [op |-> "exportJSON", thrown |-> <<>>, notice |-> "Gespeichert",
                  served |-> "", found |-> "", calls |-> 1]
    /\ UNCHANGED <<itemList, persisted>>

\* ------------------------------------------------------------- responses
\* the JSON value found at payload.items: an array, a string such as
\* "not-an-array", or nothing (payload or items missing)
ArrayOf(list) == [kind |-> "array", items |-> list]
NotAnArray == [kind |-> "string", items |-> <<>>]
Missing == [kind |-> "undefined", items |-> <<>>]

\* a backup that was not written by this list: two names that differ in
\* case only
OtherBackup == <<Item(<<"a">>, Pin1234), Item(<<"A">>, Pin9999)>>
\* a backup whose item has no name and a PIN of two digits
BadBackup == <<Item(<<>>, <<"1", "2">>)>>

\* what the server answers to latest: the shape ApiService declares
\* (BackupLatestRes, api-service.ts lines 41-44: { app, latest: file info }),
\* or an answer with the envelope under `backup`, which importJSON reads.
\* `served` tells whether the answer is for the backup stored last.
LatestResponses ==
    (IF backups # <<>>
     THEN { [shape |-> "BackupLatestRes", served |-> "stored", payload |-> Missing],
            [shape |-> "backup", served |-> "stored",
             payload |-> ArrayOf(backups[1])] }
     ELSE { [shape |-> "BackupLatestRes", served |-> "other", payload |-> Missing] })
    \cup { [shape |-> "backup", served |-> "other", payload |-> x] :
              x \in {ArrayOf(OtherBackup), ArrayOf(BadBackup), NotAnArray, Missing} }

\* what the server answers to import (BackupImportRes, lines 51-56)
ImportResponses ==
    (IF backups # <<>>
     THEN { [served |-> "stored", payload |-> ArrayOf(backups[1])] }
     ELSE {})
    \cup { [served |-> "other", payload |-> x] :
              x \in {ArrayOf(OtherBackup), ArrayOf(BadBackup), NotAnArray, Missing} }

\* the check left out: everything is adopted
IsArrayAlways(x) == TRUE

\* Array.isArray(items), lines 261 and 310
IsArray(x) == x.kind = "array"

\* lines 261-267 and 310-312: the items are adopted and saved, or the
\* backup is reported as invalid
Adopt(op, x, served, made) ==
    IF IsArray(x)
    THEN /\ itemList' = x.items
         /\ Saved(itemList')
         /\ lastOp' = [op |-> op, thrown |-> <<>>, notice |-> "Import erfolgreich",
                       served |-> served, found |-> x.kind, calls |-> made]
    ELSE /\ lastOp' = [op |-> op, thrown |-> <<>>, notice |-> "Backup ist ungueltig",
                       served |-> served, found |-> x.kind, calls |-> made]
         /\ UNCHANGED <<itemList, persisted>>

\* HomePage.importJSON (lines 254-281): latest.backup?.payload?.items
ImportJSON(resp) ==
    /\ Adopt("importJSON",
             IF resp.shape = "backup" THEN resp.payload ELSE Missing,
             resp.served, 1)
    /\ UNCHANGED backups

\* HomePage.listImport (lines 288-331): the list has no file
ListImportNone ==
    /\ backups = <<>>
    /\ lastOp' = [op |-> "listImport", thrown |-> <<>>,
                  notice |-> "Kein Backup gefunden", served |-> "", found |-> "", calls |-> 1]
    /\ UNCHANGED <<itemList, persisted, backups>>

\* HomePage.listImport (lines 288-331): a file is chosen, the handler
\* (lines 306-319) calls import and reads res.payload?.items
ListImport(resp) ==
    /\ Adopt("listImport", resp.payload, resp.served, 2)
    /\ UNCHANGED backups

notList == <<vars, apiVars, raceVars, bioVars, lateVars>>

ListNext ==
    \/ Load /\ UNCHANGED notList
    \/ \E n \in TypedNames, q \in TypedPins : Generate(n, q) /\ UNCHANGED notList
    \/ \E k \in DOMAIN itemList, n \in TypedNames, q \in EditedPins :
          Edit(k, n, q) /\ UNCHANGED notList
    \/ \E k \in DOMAIN itemList : Delete(k) /\ UNCHANGED notList
    \/ Clear /\ UNCHANGED notList
    \/ ExportJSON /\ UNCHANGED notList
    \/ \E resp \in LatestResponses : ImportJSON(resp) /\ UNCHANGED notList
    \/ ListImportNone /\ UNCHANGED notList
    \/ \E resp \in ImportResponses : ListImport(resp) /\ UNCHANGED notList

SpecList == ListInit /\ [][ListNext]_allVars

Imports == {"importJSON", "listImport"}

\* C22 (as claimed): no two items of itemList have the same normalized name.
C22_NamesUnique == Unique(itemList)

\* C22, without the imports: load, add, update, remove, clear and export keep
\* the names unique
C22_MutationsKeepUnique ==
    [][(Unique(itemList) /\ lastOp'.op \notin Imports) => Unique(itemList')]_allVars

\* C23 (as claimed): an add or update that collides with another item fails
\* with the error 'NAME_EXISTS', is reported as '<name> already exists' and
\* leaves itemList and the persisted list unchanged.
C23_CollisionIsNameExists ==
    [][(lastOp' # lastOp /\ lastOp'.op \in {"add", "update"} /\ lastOp'.thrown # <<>>)
       => /\ lastOp'.thrown = <<"NAME_EXISTS">>
          /\ lastOp'.notice = "already exists"
          /\ UNCHANGED <<itemList, persisted>>]_allVars

\* C23, the frame alone: an add or update that throws changes neither list
C23_FailedMutationChangesNothing ==
    [][(lastOp' # lastOp /\ lastOp'.thrown # <<>>)
       => UNCHANGED <<itemList, persisted>>]_allVars

\* C23, last part: an update that keeps the item's own normalized name
\* (a change of case or white space only) is not a conflict
C23_OwnNameIsNoConflict ==
    \A k \in DOMAIN itemList, n \in RawNames :
        Normalize(n) = Normalize(itemList[k].name) => ~UpdateThrows(k, n)

\* C24: an import whose response has no array at payload.items (payload or
\* items missing, or items a string) shows the notice for an invalid backup,
\* makes no further request (one request in importJSON; the list and one
\* import in listImport) and changes neither itemList nor the persisted list.
C24_BadShapeRejected ==
    [][(lastOp'.op \in Imports /\ lastOp'.found \in {"string", "undefined"})
       => /\ lastOp'.notice = "Backup ist ungueltig"
          /\ lastOp'.calls = (IF lastOp'.op = "importJSON" THEN 1 ELSE 2)
          /\ UNCHANGED <<itemList, persisted>>]_allVars

\* C24 witness: a non-empty list has survived an import that was rejected
C24_Witness ==
    /\ lastOp.op = "listImport" /\ lastOp.found = "string"
    /\ lastOp.notice = "Backup ist ungueltig"
    /\ itemList # <<>> /\ persisted = <<itemList>>

\* C25 (as claimed): an import answered for the backup stored last leaves
\* itemList equal to that backup as a set of {name, pin} pairs.
C25_RoundTrip ==
    (lastOp.op \in Imports /\ lastOp.served = "stored")
        => PairsOf(itemList) = PairsOf(backups[1])

\* C25, for the answers that carry the envelope: the items are adopted as
\* they were exported
C25_AdoptedEqualsExported ==
    (/\ lastOp.op \in Imports /\ lastOp.served = "stored"
     /\ lastOp.notice = "Import erfolgreich")
        => itemList = backups[1]

\* name and pin as generate (lines 117-122) and ModalComponent.save accept them
ValidItem(it) == Trim(it.name) # <<>> /\ IsPin(it.pin)
AllValid(list) == \A k \in DOMAIN list : ValidItem(list[k])

\* C35 (as claimed): every item of itemList has a non-empty name and a PIN
\* of 4 to 8 digits.
C35_ItemsAreValid == AllValid(itemList)

\* C35, without the imports: generate, the modal's save with update, remove,
\* clear, load and export keep the items valid
C35_MutationsKeepValid ==
    [][(AllValid(itemList) /\ lastOp'.op \notin Imports)
           => AllValid(itemList')]_allVars

\* ======================================================================
\* ModalComponent: the edit modes of the two fields
\* (src/src/app/modal/modal.component.ts, lines 65-127)
\* ======================================================================

\* ------------------------------------------------------------------ bounds
\* toggleEditName / toggleEditPin invocations in one behaviour
MaxToggles == 3

Fields == {"name", "pin"}
Other(f) == IF f = "name" THEN "pin" ELSE "name"
IsEdit(f) == IF f = "name" THEN isEditName ELSE isEditPin

\* the two flags after `this.isEdit<f> = v`
SetEdit(f, v) ==
    IF f = "name" THEN isEditName' = v /\ UNCHANGED isEditPin
                  ELSE isEditPin' = v /\ UNCHANGED isEditName

ModalInit == PinInit /\ ApiQuiet /\ RestQuiet

\* toggleEditName (lines 76-89) / toggleEditPin (lines 92-105) up to the
\* first await: next = !this.isEdit<f>; with next true the other flag is
\* cleared and the blur of the other field is awaited (lines 78, 94); with
\* next false the own flag is assigned (lines 80, 96) and the own blur is
\* awaited (lines 86, 102)
ToggleStarts(f) ==
    /\ Len(toggles) < MaxToggles
    /\ IF ~IsEdit(f)
       THEN /\ SetEdit(Other(f), FALSE)
            /\ toggles' = Append(toggles, [fn |-> f, next |-> TRUE, pc |-> "blurOther"])
       ELSE /\ SetEdit(f, FALSE)
            /\ toggles' = Append(toggles, [fn |-> f, next |-> FALSE, pc |-> "rest"])

\* lines 80 and 96: the awaited blur has settled, this.isEdit<f> = next
ToggleAssigns(t) ==
    /\ toggles[t].pc = "blurOther"
    /\ SetEdit(toggles[t].fn, toggles[t].next)
    /\ toggles' = [toggles EXCEPT ![t].pc = "rest"]

\* lines 82-88 and 98-104: the remaining awaits (setSheet, the own blur)
\* settle; they assign neither flag
ToggleEnds(t) ==
    /\ toggles[t].pc = "rest"
    /\ toggles' = [toggles EXCEPT ![t].pc = "done"]
    /\ UNCHANGED <<isEditName, isEditPin>>

\* editName (lines 120-122) / editPin (lines 125-127)
EditField(f) ==
    /\ SetEdit(f, TRUE)
    /\ UNCHANGED toggles

notModal == <<vars, apiVars, raceVars, bioVars, listVars, navVars, svcVars>>

ModalNext ==
    \/ \E f \in Fields : ToggleStarts(f) /\ UNCHANGED notModal
    \/ \E t \in DOMAIN toggles : ToggleAssigns(t) /\ UNCHANGED notModal
    \/ \E t \in DOMAIN toggles : ToggleEnds(t) /\ UNCHANGED notModal
    \/ \E f \in Fields : EditField(f) /\ UNCHANGED notModal

SpecModal == ModalInit /\ [][ModalNext]_allVars

\* C39 (as claimed): isEditName and isEditPin are never both true.
C39_OneFieldInEditMode == ~(isEditName /\ isEditPin)

\* ======================================================================
\* Navigation: AppComponent.setupLock (src/unnamed/part_004, lines 37-48),
\* LoginPage (src/src/app/login/login.page.ts, lines 73-99), RegisterPage
\* (src/unnamed/part_009, lines 58-69) and SocketPage.backButton / saveIp
\* (src/src/app/socket/socket.ts, lines 103-144)
\* ======================================================================

\* ------------------------------------------------------------------ bounds
\* navigations to /login AppComponent makes in one behaviour
MaxLocks == 2

\* the endpoint the user enters on the socket page
NavEndpoint == [ip |-> Ip192, port |-> Port8080]
NoEndpoint == [server_ip |-> <<>>, server_port |-> <<>>]
BothKeys(e) == [server_ip |-> <<e.ip>>, server_port |-> <<e.port>>]

\* the app starts at /login with or without a registered PIN and, after
\* ApiService.init (APP_INITIALIZER), with or without an endpoint
NavInit ==
    /\ PinInit /\ ValQuiet /\ HttpQuiet /\ RaceQuiet /\ BioQuiet /\ ListQuiet
    /\ ModalQuiet /\ SvcQuiet
    /\ conns = <<>> /\ writes = <<>> /\ restarts = 0
    /\ \/ ip = <<>> /\ port = <<>> /\ baseUrl = <<>> /\ store = NoEndpoint
       \/ /\ ip = NavEndpoint.ip /\ port = NavEndpoint.port
          /\ baseUrl = Url(ip, port) /\ store = BothKeys(NavEndpoint)
    /\ route = "/login" /\ loginPc = "init" /\ authed = FALSE /\ via = "start"
    /\ storedPin \in {<<>>, <<Pin1234>>}
    /\ wasInBackground = FALSE /\ appActive = TRUE /\ lockNavs = 0

\* navigateRoot('/login'): a new LoginPage is created and its ngOnInit starts
ArriveAtLogin(how) ==
    /\ route' = "/login" /\ loginPc' = "init" /\ authed' = FALSE /\ via' = how

\* the listener without line 44: the flag is never cleared
AppStateChangeKeepsFlag(isActive) ==
    /\ lockNavs < MaxLocks
    /\ appActive' = isActive
    /\ IF ~isActive
       THEN /\ wasInBackground' = TRUE
            /\ UNCHANGED <<route, loginPc, authed, via, lockNavs>>
       ELSE IF wasInBackground
       THEN /\ wasInBackground' = wasInBackground
            /\ lockNavs' = lockNavs + 1
            /\ ArriveAtLogin("resume")
       ELSE UNCHANGED <<wasInBackground, route, loginPc, authed, via, lockNavs>>
    /\ UNCHANGED <<storedPin, ip, port, baseUrl, store>>

\* AppComponent.setupLock, the appStateChange listener (lines 38-47)
AppStateChange(isActive) ==
    /\ lockNavs < MaxLocks
    /\ appActive' = isActive
    /\ IF ~isActive
       THEN /\ wasInBackground' = TRUE
            /\ UNCHANGED <<route, loginPc, authed, via, lockNavs>>
       ELSE IF wasInBackground
       THEN /\ wasInBackground' = FALSE
            /\ lockNavs' = lockNavs + 1
            /\ ArriveAtLogin("resume")
       ELSE UNCHANGED <<wasInBackground, route, loginPc, authed, via, lockNavs>>
    /\ UNCHANGED <<storedPin, ip, port, baseUrl, store>>

\* LoginPage.ngOnInit (lines 73-82) after its three Preferences.get, with
\* performBiometric (lines 95-99) when neither redirect is taken
LoginInit(bioOk) ==
    /\ loginPc = "init"
    /\ loginPc' = "ready"
    /\ IF storedPin = <<>>
       THEN route' = "/register" /\ UNCHANGED authed
       ELSE IF store.server_ip = <<>> \/ store.server_port = <<>>
       THEN route' = "/socket" /\ UNCHANGED authed
       ELSE IF bioOk
       THEN route' = "/home" /\ authed' = TRUE
       ELSE UNCHANGED <<route, authed>>
    /\ UNCHANGED <<via, storedPin, wasInBackground, appActive, lockNavs,
                   ip, port, baseUrl, store>>

\* LoginPage.login (lines 85-92): this.pin === storedPin.value
Login(entered) ==
    /\ route = "/login"
    /\ IF storedPin = <<entered>>
       THEN route' = "/home" /\ authed' = TRUE
       ELSE UNCHANGED <<route, authed>>
    /\ UNCHANGED <<loginPc, via, storedPin, wasInBackground, appActive,
                   lockNavs, ip, port, baseUrl, store>>

\* RegisterPage.registerPin (part_009 lines 60-69) with a PIN of four digits
RegisterPin ==
    /\ route = "/register"
    /\ storedPin' = <<Pin1234>>
    /\ route' = "/socket"
    /\ UNCHANGED <<loginPc, authed, via, wasInBackground, appActive, lockNavs,
                   ip, port, baseUrl, store>>

SaveOutcomes == {"invalid", "write failed", "probe failed", "ok"}

\* SocketPage.saveIp (lines 132-144) from its call to its end: setConnection
\* rejects the input, fails while writing server_port, or completes, and
\* then the probe fails (or times out) or succeeds
SaveIpEnds(how) ==
    /\ route = "/socket"
    /\ CASE how = "invalid" -> UNCHANGED <<ip, port, baseUrl, store>>
         [] how = "write failed" ->
              /\ ip' = NavEndpoint.ip /\ port' = NavEndpoint.port
              /\ store' = [store EXCEPT !.server_ip = <<NavEndpoint.ip>>]
              /\ UNCHANGED baseUrl
         [] OTHER ->
              /\ ip' = NavEndpoint.ip /\ port' = NavEndpoint.port
              /\ store' = BothKeys(NavEndpoint)
              /\ baseUrl' = Url(ip', port')
    /\ IF how = "ok" THEN ArriveAtLogin("saveIp")
                     ELSE UNCHANGED <<route, loginPc, authed, via>>
    /\ UNCHANGED <<storedPin, wasInBackground, appActive, lockNavs>>

BackChoices == {"Weiter", "Abbrechen"}

\* SocketPage.backButton (lines 103-129); `choice` is the button pressed in
\* the dialog of lines 107-125
BackButton(choice) ==
    /\ route = "/socket"
    /\ IF ip = <<>> \/ port = <<>>
       THEN IF choice = "Weiter" THEN ArriveAtLogin("Weiter")
                                 ELSE UNCHANGED <<route, loginPc, authed, via>>
       ELSE route' = "/home" /\ UNCHANGED <<loginPc, authed, via>>
    /\ UNCHANGED <<storedPin, wasInBackground, appActive, lockNavs,
                   ip, port, baseUrl, store>>

notNav == <<vars, valVars, conns, writes, restarts, httpVars, raceVars, bioVars,
            listVars, modalVars, svcVars>>

NavNext ==
    \/ \E isActive \in BOOLEAN : AppStateChange(isActive) /\ UNCHANGED notNav
    \/ \E bioOk \in BOOLEAN : LoginInit(bioOk) /\ UNCHANGED notNav
    \/ \E entered \in {Pin1234, Pin9999} : Login(entered) /\ UNCHANGED notNav
    \/ RegisterPin /\ UNCHANGED notNav
    \/ \E how \in SaveOutcomes : SaveIpEnds(how) /\ UNCHANGED notNav
    \/ \E choice \in BackChoices : BackButton(choice) /\ UNCHANGED notNav

SpecNav == NavInit /\ [][NavNext]_allVars

\* C31 (as claimed): the app is at /home only after an authentication that
\* succeeded since /login was entered last.
C31_HomeOnlyAfterAuthentication == route = "/home" => authed

\* C36: AppComponent navigates to /login exactly once in the step in which
\* the app becomes active after having been inactive, and in no other step,
\* in particular not on an activation that follows an active state.
C36_LockOncePerCycle ==
    [][IF ~appActive /\ appActive'
       THEN lockNavs' = lockNavs + 1 /\ route' = "/login" /\ loginPc' = "init"
       ELSE lockNavs' = lockNavs]_allVars

\* C36 witness: the app was locked on its return from the background and the
\* user has authenticated again
C36_Witness ==
    /\ lockNavs >= 1 /\ appActive /\ ~wasInBackground
    /\ via = "resume" /\ route = "/home" /\ authed

\* C37 (as claimed): after 'Weiter' has led to /login, no step leads from
\* there back to the socket page.
C37_WeiterStaysAtLogin ==
    [][~(via = "Weiter" /\ route = "/login" /\ route' = "/socket")]_allVars

\* ======================================================================
\* Service and its awaits on Preferences
\* (src/src/app/services/service.ts, lines 77-133)
\* ======================================================================

\* ------------------------------------------------------------------ bounds
\* Service operations in one behaviour
MaxSvc == 3

\* an operation awaiting Preferences:
\*   pc     "get" (Preferences.get issued), "got" (the value is read, load
\*          not yet resumed), "set" (Preferences.set / remove issued),
\*          "done", "failed"
\*   value  what is to be written, or what was read: <<>> or <<list>>
SvcOp(op, pc, value) == [op |-> op, pc |-> pc, value |-> value]
Begun(op, value) ==
    svcOps' = Append(svcOps, SvcOp(op, IF op = "load" THEN "get" ELSE "set", value))

\* Preferences serves the requests in the order they were issued
IsNext(k) == \A j \in 1..(k - 1) : svcOps[j].pc \notin {"get", "set"}

SvcItems == {Item(<<"a">>, Pin1234), Item(<<"b">>, Pin1234), Item(<<"b">>, Pin9999)}

SvcInit == PinInit /\ ApiQuiet /\ RestQuiet

\* Service.load (lines 77-80) up to its await
LoadStarts ==
    /\ Len(svcOps) < MaxSvc
    /\ Begun("load", <<>>)
    /\ UNCHANGED <<itemList, persisted>>

\* Preferences.get of a load reads the key
GetReads(k) ==
    /\ svcOps[k].pc = "get" /\ IsNext(k)
    /\ svcOps' = [svcOps EXCEPT ![k].pc = "got", ![k].value = persisted]
    /\ UNCHANGED <<itemList, persisted>>

\* line 79: load resumes and assigns what was read, [] for an absent key
LoadResumes(k) ==
    /\ svcOps[k].pc = "got"
    /\ itemList' = OrEmpty(svcOps[k].value)
    /\ svcOps' = [svcOps EXCEPT ![k].pc = "done"]
    /\ UNCHANGED persisted

\* Service.add (lines 98-102) up to the await in save (lines 83-88), which
\* has serialised the list at that moment
AddStarts(it) ==
    /\ Len(svcOps) < MaxSvc
    /\ ~existsByName(it.name)
    /\ itemList' = <<it>> \o itemList
    /\ Begun("add", <<itemList'>>)
    /\ UNCHANGED persisted

\* Service.remove (lines 105-108) up to the await in save
RemoveStarts(index) ==
    /\ Len(svcOps) < MaxSvc
    /\ index \in DOMAIN itemList
    /\ itemList' = [k \in 1..(Len(itemList) - 1) |->
                       IF k < index THEN itemList[k] ELSE itemList[k + 1]]
    /\ Begun("remove", <<itemList'>>)
    /\ UNCHANGED persisted

\* Service.update (lines 117-133) up to the await in save
UpdateStarts(index, it) ==
    /\ Len(svcOps) < MaxSvc
    /\ index \in DOMAIN itemList
    /\ ~UpdateThrows(index, it.name)
    /\ itemList' = [itemList EXCEPT ![index] = Item(Trim(it.name), Trim(it.pin))]
    /\ Begun("update", <<itemList'>>)
    /\ UNCHANGED persisted

\* Service.clear (lines 111-114) up to the await of Preferences.remove
ClearStarts ==
    /\ Len(svcOps) < MaxSvc
    /\ itemList' = <<>>
    /\ Begun("clear", <<>>)
    /\ UNCHANGED persisted

\* the import handlers (home.page.ts lines 266-267, 311-312): itemList is
\* assigned and save is awaited
ImportStarts(list) ==
    /\ Len(svcOps) < MaxSvc
    /\ itemList' = list
    /\ Begun("import", <<itemList'>>)
    /\ UNCHANGED persisted

\* Preferences.set / Preferences.remove is applied and the operation ends
SetCompletes(k) ==
    /\ svcOps[k].pc = "set" /\ IsNext(k)
    /\ persisted' = svcOps[k].value
    /\ svcOps' = [svcOps EXCEPT ![k].pc = "done"]
    /\ UNCHANGED itemList

\* the request to Preferences rejects; the operation rejects with it (no
\* operation of Service has a catch)
RequestFails(k) ==
    /\ svcOps[k].pc \in {"get", "set"} /\ IsNext(k)
    /\ svcOps' = [svcOps EXCEPT ![k].pc = "failed"]
    /\ UNCHANGED <<itemList, persisted>>

svcFrame == <<backups, lastOp>>
notSvc == <<vars, apiVars, raceVars, bioVars, svcFrame, modalVars, navVars>>

SvcNext ==
    \/ LoadStarts /\ UNCHANGED notSvc
    \/ \E k \in DOMAIN svcOps : GetReads(k) /\ UNCHANGED notSvc
    \/ \E k \in DOMAIN svcOps : LoadResumes(k) /\ UNCHANGED notSvc
    \/ \E it \in SvcItems : AddStarts(it) /\ UNCHANGED notSvc
    \/ \E k \in DOMAIN itemList : RemoveStarts(k) /\ UNCHANGED notSvc
    \/ \E k \in DOMAIN itemList, it \in SvcItems : UpdateStarts(k, it) /\ UNCHANGED notSvc
    \/ ClearStarts /\ UNCHANGED notSvc
    \/ ImportStarts(OtherBackup) /\ UNCHANGED notSvc
    \/ \E k \in DOMAIN svcOps : SetCompletes(k) /\ UNCHANGED notSvc
    \/ \E k \in DOMAIN svcOps : RequestFails(k) /\ UNCHANGED notSvc

SpecSvc == SvcInit /\ [][SvcNext]_allVars

Quiescent == \A k \in DOMAIN svcOps : svcOps[k].pc \in {"done", "failed"}

\* C34 (as claimed): whenever no Service operation is in progress, the list
\* stored under 'itemList' equals the in-memory itemList, an absent key
\* counting as the empty list.
C34_PersistedEqualsMemory == Quiescent => OrEmpty(persisted) = itemList

====
